---------------------------- MODULE Spec2Model ----------------------------
(***************************************************************************)
(* Model of src/src/pages/Gallery.tsx: the public Gallery page (folder     *)
(* grouping, address-bar / folder-view synchronisation) and the admin      *)
(* BlogEditor (gallery upload, image list, article form).                  *)
(*                                                                         *)
(* A JavaScript string is a sequence of atoms.  An atom is one character   *)
(* ("/", " ", "%", "e", ...) or a word that is spelled with characters     *)
(* that are not atoms themselves ("gallery", "singapore", "constructor"),  *)
(* so two different sequences never spell the same string.  The value      *)
(* null is the one-atom sequence Null, whose atom occurs in no string.     *)
(***************************************************************************)
EXTENDS Integers, Sequences, FiniteSets, TLC

VARIABLES
    images,          \* Gallery: useState images (the last fetched list)
    groupedImages,   \* Gallery: the memoised grouping of the last render
    memo,            \* "stale" until the render recomputed groupedImages
    gallery,         \* backend: the rows of table gallery, newest first
    history,         \* browser: the session history, a sequence of paths
    idx,             \* browser: position of the current entry in history
    selectedFolder,  \* Gallery: useState selectedFolder
    loading,         \* Gallery: useState loading
    inflight,        \* Gallery: queries awaiting their response, per country
    crashed,         \* Gallery: a render or an effect threw (tree unmounted)
    toast,           \* the last notification shown
    lastOp,          \* the last navigation operation: "openFolder",
                     \* "backToFolders" or "other" (history variable)
    prevOp,          \* the navigation operation before lastOp
    galleryUploadForm, \* BlogEditor: useState galleryUploadForm
    uploadLoading,   \* BlogEditor: useState uploadLoading
    batches,         \* BlogEditor: the submitted batches and their per-file
                     \* operations (the closures of handleGalleryFileUpload)
    storage,         \* backend: the stored objects, as <<bucket, key>>
    galleryImages,   \* BlogEditor: useState galleryImages
    editorLoading,   \* BlogEditor: useState loading
    editorInflight,  \* BlogEditor: gallery queries awaiting their response
    ops,             \* BlogEditor: the other asynchronous handlers that were
                     \* started (visibility toggles, deletes, article
                     \* submits, article queries), in the order of their start
    articles,        \* backend: the rows of table articles
    articleForm      \* BlogEditor: useState title, slug, content and excerpt,
                     \* selectedFile, editingId (the article form)

groupVars == <<images, groupedImages, memo>>
navVars == <<gallery, history, idx, selectedFolder, loading, inflight,
             crashed, toast, lastOp, prevOp>>
pageVars == <<history, idx, selectedFolder, loading, inflight, crashed,
              lastOp, prevOp>>
blogVars == <<articles, articleForm>>
editorVars == <<galleryUploadForm, uploadLoading, batches, storage,
                galleryImages, editorLoading, editorInflight, ops, blogVars>>
vars == <<images, groupedImages, memo, gallery, history, idx, selectedFolder,
          loading, inflight, crashed, toast, lastOp, prevOp,
          galleryUploadForm, uploadLoading, batches, storage, galleryImages,
          editorLoading, editorInflight, ops, articles, articleForm>>

----------------------------------------------------------------------------
(* Bounds *)

MaxImages == 3       \* longest fetched image list that is grouped
MaxHistory == 3      \* most entries of the session history
MaxInflight == 2     \* most gallery queries awaiting a response at once
MaxFiles == 2        \* most files selected in the upload form
MaxBatches == 2      \* most upload batches that pass validation

----------------------------------------------------------------------------
(* Strings *)

Null == <<"<null>">>
Str(a) == <<a>>
Uncategorized == <<"Uncategorized">>

\* JavaScript truthiness of a (string | null) value
Truthy(s) == s # Null /\ s # <<>>

\* null, empty or made of white space only
IsBlank(s) == s = Null \/ \A i \in 1..Len(s) : s[i] = " "

\* String.prototype.includes(c) for a one-character c
includes(s, c) == \E i \in 1..Len(s) : s[i] = c

\* position of the first c in s, Len(s) + 1 when there is none
RECURSIVE indexFrom(_, _, _)
indexFrom(s, c, i) ==
    IF i > Len(s) \/ s[i] = c THEN i ELSE indexFrom(s, c, i + 1)

\* s.split('/')[0]
firstSegment(s) == SubSeq(s, 1, indexFrom(s, "/", 1) - 1)

\* the names every object literal {} inherits from Object.prototype that
\* occur in the modelled alphabet
ProtoKeys == {Str("constructor"), Str("__proto__")}

----------------------------------------------------------------------------
(* Folder grouping: Gallery.tsx, groupedImages *)

\* the key an image is filed under (lines 66-68)
folderOf(img) ==
    IF Truthy(img.folder) THEN img.folder
    ELSE IF includes(img.image_path, "/") THEN firstSegment(img.image_path)
    ELSE Uncategorized

\* groups[folder] is truthy: an own key, or a member inherited from
\* Object.prototype
hasMember(groups, folder) == folder \in DOMAIN groups \/ folder \in ProtoKeys

\* the keys of the grouping a render can use: none when useMemo threw
keysOf(g) == IF g.threw THEN {} ELSE DOMAIN g.groups

\* a variant of the loop body that unshifts instead of pushing
groupStepPrepends(g, img) ==
    IF g.threw THEN g
    ELSE LET folder == folderOf(img)
             made == IF hasMember(g.groups, folder) THEN g.groups
                     ELSE (folder :> <<>>) @@ g.groups
         IN  IF folder \in DOMAIN made
             THEN [g EXCEPT !.groups = [made EXCEPT ![folder] = <<img>> \o @]]
             ELSE [g EXCEPT !.threw = TRUE]

\* the loop body of images.forEach (lines 65-71): line 69 creates the
\* group unless groups[folder] is truthy, line 70 pushes.  g.threw records
\* the TypeError of line 70 when groups[folder] is an inherited member,
\* which has no push; the exception leaves useMemo without a result.
groupStep(g, img) ==
    IF g.threw THEN g
    ELSE LET folder == folderOf(img)
             made == IF hasMember(g.groups, folder) THEN g.groups
                     ELSE (folder :> <<>>) @@ g.groups
         IN  IF folder \in DOMAIN made
             THEN [g EXCEPT !.groups = [made EXCEPT ![folder] = Append(@, img)]]
             ELSE [g EXCEPT !.threw = TRUE]

NoGroups == [threw |-> FALSE, groups |-> <<>>]

RECURSIVE groupFrom(_, _)
groupFrom(imgs, g) ==
    IF imgs = <<>> THEN g ELSE groupFrom(Tail(imgs), groupStep(g, Head(imgs)))

\* useMemo(() => {...}, [images]) (lines 63-73)
groupImages(imgs) == groupFrom(imgs, NoGroups)

----------------------------------------------------------------------------
(* SpecGroup: the grouping applied to every bounded image list *)

GroupFolders == {Null, <<>>, Str(" "), Str("e"), Str("constructor")}
GroupPaths == {Str("n"), <<"e", "/", "n">>, <<"x", "/", "e", "/", "n">>,
               <<"constructor", "/", "n">>}

ImageLists ==
    UNION {[1..n -> GroupFolders \X GroupPaths] : n \in 0..MaxImages}

\* rows as the query returns them: distinct ids, in fetch order
AsImages(l) ==
    [i \in 1..Len(l) |-> [id |-> i, folder |-> l[i][1], image_path |-> l[i][2]]]

\* the values of the variables of a component that is not mounted
PageUnmounted ==
    /\ history = <<>>
    /\ idx = 0
    /\ selectedFolder = Null
    /\ loading = FALSE
    /\ inflight = <<>>
    /\ crashed = FALSE
    /\ lastOp = "other"
    /\ prevOp = "other"

EditorUnmounted ==
    /\ galleryUploadForm = <<>>
    /\ uploadLoading = FALSE
    /\ batches = <<>>
    /\ storage = {}
    /\ galleryImages = <<>>
    /\ editorLoading = FALSE
    /\ editorInflight = 0
    /\ ops = <<>>
    /\ articles = <<>>
    /\ articleForm = <<>>

InitGroup ==
    /\ \E l \in ImageLists : images = AsImages(l)
    /\ groupedImages = NoGroups
    /\ memo = "stale"
    /\ gallery = <<>>
    /\ toast = <<>>
    /\ PageUnmounted
    /\ EditorUnmounted

\* the render that follows setImages: useMemo recomputes the grouping
Regroup ==
    /\ memo = "stale"
    /\ groupedImages' = groupImages(images)
    /\ memo' = "fresh"
    /\ UNCHANGED <<images, navVars, editorVars>>

NextGroup == Regroup

SpecGroup == InitGroup /\ [][NextGroup]_vars

----------------------------------------------------------------------------
(* Claims about the grouping (SpecGroup) *)

Grouped == memo = "fresh"
Idx == 1..Len(images)
InGroup(g, k, img) == \E j \in 1..Len(g.groups[k]) : g.groups[k][j] = img

\* C4 (as claimed): every image with a non-blank folder field is in the
\* group keyed by that field verbatim, and in no other group.
C4_NonBlankFolderGrouped ==
    Grouped =>
        \A i \in Idx :
            ~IsBlank(images[i].folder) =>
                /\ images[i].folder \in keysOf(groupedImages)
                /\ \A k \in keysOf(groupedImages) :
                       InGroup(groupedImages, k, images[i]) <=> k = images[i].folder

\* C5 (as claimed): an image with a blank or absent folder field and a
\* storage path containing '/' is filed under the path's first segment.
C5_BlankFolderUsesFirstSegment ==
    Grouped =>
        \A i \in Idx :
            (IsBlank(images[i].folder) /\ includes(images[i].image_path, "/")) =>
                /\ firstSegment(images[i].image_path) \in keysOf(groupedImages)
                /\ InGroup(groupedImages, firstSegment(images[i].image_path), images[i])

\* C6 (as claimed): the groups partition the fetched list, no group is
\* empty, and an image with no folder and no '/' in its path is in the
\* group "Uncategorized".
C6_GroupingIsPartition ==
    Grouped =>
        /\ \A i \in Idx :
               Cardinality({k \in keysOf(groupedImages) :
                               InGroup(groupedImages, k, images[i])}) = 1
        /\ \A k \in keysOf(groupedImages) : groupedImages.groups[k] # <<>>
        /\ \A i \in Idx :
               (~Truthy(images[i].folder) /\ ~includes(images[i].image_path, "/")) =>
                   /\ Uncategorized \in keysOf(groupedImages)
                   /\ InGroup(groupedImages, Uncategorized, images[i])

\* C7: within every group the grouping produces, the images are in the
\* order of the fetched list (ids are the positions in the fetched list).
C7_GroupOrderIsFetchOrder ==
    Grouped =>
        \A k \in keysOf(groupedImages) :
            LET grp == groupedImages.groups[k] IN
            /\ \A a \in 1..Len(grp) : images[grp[a].id] = grp[a]
            /\ \A a, b \in 1..Len(grp) : a < b => grp[a].id < grp[b].id

C7_Witness ==
    /\ Grouped
    /\ \E k \in keysOf(groupedImages) :
           /\ Len(groupedImages.groups[k]) >= 2
           /\ groupedImages.groups[k][1].id + 1 < groupedImages.groups[k][2].id

----------------------------------------------------------------------------
(* Percent-encoding and the address bar *)

\* String.prototype.toLowerCase on the atoms a path can hold
lowerAtom(a) ==
    CASE a = "F" -> "f"
      [] a = "Myanmar" -> "myanmar"
      [] OTHER -> a

toLowerCase(s) == [i \in 1..Len(s) |-> lowerAtom(s[i])]

\* s contains t as a substring
containsSeq(s, t) ==
    \E i \in 1..(Len(s) - Len(t) + 1) : SubSeq(s, i, i + Len(t) - 1) = t

\* encodeURIComponent: the reserved characters of the alphabet are escaped,
\* every other atom is kept
encodeAtom(a) ==
    CASE a = "/" -> <<"%", "2", "F">>
      [] a = "%" -> <<"%", "2", "5">>
      [] a = "\"" -> <<"%", "2", "2">>
      [] a = " " -> <<"%", "2", "0">>
      [] OTHER -> <<a>>

RECURSIVE encodeURIComponent(_)
encodeURIComponent(s) ==
    IF s = <<>> THEN <<>>
    ELSE encodeAtom(Head(s)) \o encodeURIComponent(Tail(s))

\* the character of an escape %hl; "" when the escape is no complete
\* UTF-8 sequence (F2, F5 lead a sequence no following atom continues, FF
\* is no UTF-8 byte)
HexDigits == {"0", "2", "5", "F"}
unescapeChar(h, l) ==
    CASE h = "2" /\ l = "F" -> "/"
      [] h = "2" /\ l = "5" -> "%"
      [] h = "2" /\ l = "2" -> "\""
      [] h = "2" /\ l = "0" -> " "
      [] h = "5" /\ l = "2" -> "R"
      [] h = "5" /\ l = "5" -> "U"
      [] h = "5" /\ l = "F" -> "_"
      [] h = "5" /\ l = "0" -> "P"
      [] h = "F" -> ""

\* decodeURIComponent: value is the decoded string, threw is the URIError
\* of a malformed escape
RECURSIVE decodeFrom(_, _)
decodeFrom(s, acc) ==
    IF s = <<>> THEN [threw |-> FALSE, value |-> acc]
    ELSE IF Head(s) # "%" THEN decodeFrom(Tail(s), Append(acc, Head(s)))
    ELSE IF Len(s) < 3 \/ s[2] \notin HexDigits \/ s[3] \notin HexDigits
         THEN [threw |-> TRUE, value |-> <<>>]
    ELSE IF unescapeChar(s[2], s[3]) = "" THEN [threw |-> TRUE, value |-> <<>>]
    ELSE decodeFrom(SubSeq(s, 4, Len(s)), Append(acc, unescapeChar(s[2], s[3])))

decodeURIComponent(s) == decodeFrom(s, <<>>)

\* `/gallery/${country}` and `/gallery/${country}/f/${segment}`
rootPath(c) == <<"/", "gallery", "/", c>>
folderPath(c, segment) == rootPath(c) \o <<"/", "f", "/">> \o segment

\* useParams().country: the path segment after /gallery/, Null when the
\* path is /gallery
countryParam(path) == IF Len(path) >= 4 THEN <<path[4]>> ELSE Null

\* getCurrentCountry (lines 31-44); country names are single atoms
getCurrentCountry(pathname) ==
    LET path == toLowerCase(pathname)
        country == countryParam(pathname)
    IN  IF containsSeq(path, <<"/", "sri-lanka", "/">>) THEN "srilanka"
        ELSE IF containsSeq(path, <<"/", "myanmar", "/">>) THEN "myanmar"
        ELSE IF containsSeq(path, <<"/", "bangladesh", "/">>) THEN "bangladesh"
        ELSE IF containsSeq(path, <<"/", "pakistan", "/">>) THEN "pakistan"
        ELSE IF containsSeq(path, <<"/", "singapore", "/">>) THEN "singapore"
        ELSE IF Truthy(country)
             THEN LET cl == lowerAtom(country[1]) IN
                  IF cl = "sri-lanka" THEN "srilanka" ELSE cl
        ELSE "singapore"

\* pathname.match(/\/gallery\/[^\/]+\/f\/(.+)$/i) at position i: the end of
\* the match's country segment, 0 when the pattern does not match at i
segmentEnd(p, i) ==
    IF /\ Len(p) >= i + 3
       /\ p[i] = "/" /\ lowerAtom(p[i + 1]) = "gallery" /\ p[i + 2] = "/"
    THEN LET j == indexFrom(p, "/", i + 3) IN
         IF /\ j > i + 3
            /\ Len(p) >= j + 3
            /\ lowerAtom(p[j + 1]) = "f" /\ p[j + 2] = "/"
         THEN j ELSE 0
    ELSE 0

\* m[1] of the leftmost match, <<>> when there is no match (m is null)
matchFolder(p) ==
    LET starts == {i \in 1..Len(p) : segmentEnd(p, i) # 0} IN
    IF starts = {} THEN <<>>
    ELSE LET i == CHOOSE a \in starts : \A b \in starts : a <= b
         IN  SubSeq(p, segmentEnd(p, i) + 3, Len(p))

\* the deep-link effect (lines 100-105) run on pathname with selectedFolder
\* sf: the new selectedFolder, and whether decodeURIComponent threw
deepLinkSync(pathname, sf) ==
    LET m == matchFolder(pathname)
        d == decodeURIComponent(m)
    IN  IF m # <<>>
        THEN IF d.threw THEN [sf |-> sf, threw |-> TRUE]
             ELSE [sf |-> d.value, threw |-> FALSE]
        ELSE [sf |-> sf, threw |-> FALSE]

----------------------------------------------------------------------------
(* The public Gallery page *)

\* the query of fetchGalleryImages (lines 78-83): the rows of the country
\* whose label is null or differs from "private", newest first
\* a variant of the query without its filter on the label
publicRowAnyLabel(row, c) == row.country = c

publicRow(row, c) ==
    row.country = c /\ (row.label = Null \/ row.label # Str("private"))

RECURSIVE selectPublic(_, _)
selectPublic(rows, c) ==
    IF rows = <<>> THEN <<>>
    ELSE IF publicRow(Head(rows), c)
         THEN <<[id |-> Head(rows).id, folder |-> Head(rows).folder,
                 image_path |-> Head(rows).image_path]>>
              \o selectPublic(Tail(rows), c)
         ELSE selectPublic(Tail(rows), c)

\* groupedImages[selectedFolder]?.map(...) of the folder detail (line 191)
\* throws when the member is inherited from Object.prototype: it is
\* neither null nor undefined, and has no map
detailThrows(g, sf) == sf \notin DOMAIN g.groups /\ sf \in ProtoKeys

\* the images the folder detail lists
detailImages(g, sf) == IF sf \in DOMAIN g.groups THEN g.groups[sf] ELSE <<>>

\* which block of lines 137-225 is rendered
view(ld, imgs, sf) ==
    IF ld THEN "spinner"
    ELSE IF imgs = <<>> THEN "empty"
    ELSE IF sf = Null THEN "folders"
    ELSE "detail"

\* the render throws: useMemo (line 63) or the folder detail (line 191)
renderThrows(ld, imgs, g, sf) ==
    g.threw \/ (view(ld, imgs, sf) = "detail" /\ detailThrows(g, sf))

\* navigate(to, { replace }): the new history and position
navigateAlwaysPush(h, i, to, replace) ==
    [history |-> Append(SubSeq(h, 1, i), to), idx |-> i + 1]

navigate(h, i, to, replace) ==
    IF replace THEN [history |-> [h EXCEPT ![i] = to], idx |-> i]
    ELSE [history |-> Append(SubSeq(h, 1, i), to), idx |-> i + 1]

CurPath == history[idx]
currentCountry == getCurrentCountry(CurPath)
Pending == LET RECURSIVE sum(_)
               sum(S) == IF S = {} THEN 0
                         ELSE LET c == CHOOSE x \in S : TRUE
                              IN  inflight[c] + sum(S \ {c})
           IN  sum(DOMAIN inflight)
startFetch(fl, c) ==
    IF c \in DOMAIN fl THEN [fl EXCEPT ![c] = @ + 1] ELSE (c :> 1) @@ fl

\* The re-render after the address bar moved to nav.history[nav.idx] with
\* selectedFolder set to sf by the handler: the effect of lines 94-97 runs
\* when currentCountry (so fetchGalleryImages) changed, then the effect of
\* lines 100-105 when the pathname changed.
Rerender(nav, sf, op) ==
    LET to == nav.history[nav.idx]
        c == getCurrentCountry(to)
        refetch == c # currentCountry
        sf1 == IF refetch THEN Null ELSE sf
        sync == IF to # CurPath THEN deepLinkSync(to, sf1)
                ELSE [sf |-> sf1, threw |-> FALSE]
        ld == refetch \/ loading
    IN  /\ refetch => Pending < MaxInflight
        /\ history' = nav.history
        /\ idx' = nav.idx
        /\ selectedFolder' = sync.sf
        /\ loading' = ld
        /\ inflight' = IF refetch THEN startFetch(inflight, c) ELSE inflight
        /\ crashed' = (sync.threw \/ renderThrows(ld, images, groupedImages, sync.sf))
        /\ lastOp' = op
        /\ prevOp' = lastOp
        /\ UNCHANGED <<images, groupedImages, memo, gallery, toast, editorVars>>

\* openFolder (lines 107-110), the onClick of a folder card (line 165)
OpenFolder(folder) ==
    /\ ~crashed
    /\ view(loading, images, selectedFolder) = "folders"
    /\ folder \in keysOf(groupedImages)
    /\ idx < MaxHistory
    /\ Rerender(navigate(history, idx,
                         folderPath(currentCountry, encodeURIComponent(folder)),
                         FALSE),
                folder, "openFolder")

\* backToFolders (lines 112-115), the onClick of "Back to folders"
BackToFoldersKeepsFolder ==
    /\ ~crashed
    /\ view(loading, images, selectedFolder) = "detail"
    /\ Rerender(navigate(history, idx, rootPath(currentCountry), TRUE),
                selectedFolder, "backToFolders")

BackToFolders ==
    /\ ~crashed
    /\ view(loading, images, selectedFolder) = "detail"
    /\ Rerender(navigate(history, idx, rootPath(currentCountry), TRUE),
                Null, "backToFolders")

\* the browser's Back and Forward buttons
BrowserBack ==
    /\ ~crashed
    /\ idx > 1
    /\ Rerender([history |-> history, idx |-> idx - 1], selectedFolder, "other")

BrowserForward ==
    /\ ~crashed
    /\ idx < Len(history)
    /\ Rerender([history |-> history, idx |-> idx + 1], selectedFolder, "other")

\* a link of the site's navigation to another country's gallery
NavCountries == {"singapore", "myanmar"}
NavigateCountry(c) ==
    /\ ~crashed
    /\ idx < MaxHistory
    /\ c # currentCountry
    /\ Rerender(navigate(history, idx, rootPath(c), FALSE), selectedFolder, "other")

\* the response of a query of fetchGalleryImages (lines 85-91)
FetchResolve(c, ok) ==
    /\ ~crashed
    /\ c \in DOMAIN inflight
    /\ inflight[c] > 0
    /\ inflight' = [inflight EXCEPT ![c] = @ - 1]
    /\ images' = IF ok THEN selectPublic(gallery, c) ELSE images
    /\ groupedImages' = groupImages(images')
    /\ toast' = IF ok THEN toast ELSE <<"Error loading gallery">>
    /\ loading' = FALSE
    /\ crashed' = renderThrows(FALSE, images', groupedImages', selectedFolder)
    /\ UNCHANGED <<memo, gallery, history, idx, selectedFolder, lastOp, prevOp,
                   editorVars>>

\* the rows of table gallery the page is run against
Row(i, c, label, folder, path) ==
    [id |-> i, country |-> c, label |-> label, folder |-> folder,
     image_path |-> path, by |-> <<0, 0>>]

NavTables == {
    <<Row(5, "singapore", Null, Str("k"), <<"k", "/", "n">>),
      Row(4, "singapore", Str("private"), Str("k"), <<"k", "/", "n">>),
      Row(3, "singapore", Null, Str("%"), Str("n")),
      Row(2, "singapore", Str("x"), Null, <<"k", "/", "n">>),
      Row(1, "myanmar", Null, Null, Str("n"))>>,
    <<Row(2, "singapore", Null, Str("k"), <<"k", "/", "n">>),
      Row(1, "myanmar", Null, Str("constructor"), <<"constructor", "/", "n">>)>>,
    <<>> }

\* the paths an inbound link can carry: /gallery, /gallery/<country> and
\* /gallery/<country>/f/<segment>, the segment a percent-encoded key or
\* malformed
InboundKeys == {Str("k"), Str("%"), Str("/"), Str("constructor")}
Malformed == {<<"%", "2">>}
InboundCountries == {"singapore"}
InboundPaths ==
    {<<"/", "gallery">>}
    \cup {rootPath(c) : c \in InboundCountries}
    \cup {folderPath(c, encodeURIComponent(k)) :
             c \in InboundCountries, k \in InboundKeys}
    \cup {folderPath(c, s) : c \in InboundCountries, s \in Malformed}

\* the page mounted on an inbound link: the first render, then both
\* effects (lines 94-105)
InitNav ==
    /\ gallery \in NavTables
    /\ \E p \in InboundPaths :
           LET sync == deepLinkSync(p, Null) IN
           /\ history = <<p>>
           /\ selectedFolder = sync.sf
           /\ crashed = sync.threw
           /\ inflight = (getCurrentCountry(p) :> 1)
    /\ idx = 1
    /\ images = <<>>
    /\ groupedImages = NoGroups
    /\ memo = "fresh"
    /\ loading = TRUE
    /\ toast = <<>>
    /\ lastOp = "other"
    /\ prevOp = "other"
    /\ EditorUnmounted

NextNav ==
    \/ \E k \in keysOf(groupedImages) : OpenFolder(k)
    \/ BackToFolders
    \/ BrowserBack
    \/ BrowserForward
    \/ \E c \in NavCountries : NavigateCountry(c)
    \/ \E c \in DOMAIN inflight, ok \in BOOLEAN : FetchResolve(c, ok)

SpecNav == InitNav /\ [][NextNav]_vars

----------------------------------------------------------------------------
(* slugifyFolder (lines 322-334) *)

\* the atoms of [a-z0-9-_]
SlugAtoms == {"a", "b", "c", "e", "f", "i", "k", "n", "r", "s", "t", "v", "x",
              "0", "2", "5", "-", "_", "constructor", "__proto__"}

toLowerAtomOfName(a) ==
    CASE a = "E" -> "e"
      [] a = "A" -> "a"
      [] a = "C" -> "c"
      [] a = "R" -> "r"
      [] a = "S" -> "s"
      [] a = "V" -> "v"
      [] OTHER -> lowerAtom(a)

\* s without its leading and trailing atoms of the set C
RECURSIVE stripLeading(_, _)
stripLeading(s, C) ==
    IF s # <<>> /\ Head(s) \in C THEN stripLeading(Tail(s), C) ELSE s

RECURSIVE stripTrailing(_, _)
stripTrailing(s, C) ==
    IF s # <<>> /\ s[Len(s)] \in C
    THEN stripTrailing(SubSeq(s, 1, Len(s) - 1), C) ELSE s

stripEnds(s, C) == stripTrailing(stripLeading(s, C), C)

\* s.split("/")
RECURSIVE split(_)
split(s) ==
    LET j == indexFrom(s, "/", 1) IN
    IF j > Len(s) THEN <<s>>
    ELSE <<SubSeq(s, 1, j - 1)>> \o split(SubSeq(s, j + 1, Len(s)))

\* part.replace(/[^a-z0-9-_]+/g, "-"): every run of other atoms becomes "-"
RECURSIVE dashRuns(_, _)
dashRuns(s, inRun) ==
    IF s = <<>> THEN <<>>
    ELSE IF Head(s) \in SlugAtoms THEN <<Head(s)>> \o dashRuns(Tail(s), FALSE)
    ELSE IF inRun THEN dashRuns(Tail(s), TRUE)
    ELSE <<"-">> \o dashRuns(Tail(s), TRUE)

\* a variant of the map callback without its second replace
slugPartKeepsDashes(part) ==
    dashRuns([i \in 1..Len(part) |-> toLowerAtomOfName(part[i])], FALSE)

slugPart(part) ==
    stripEnds(dashRuns([i \in 1..Len(part) |-> toLowerAtomOfName(part[i])], FALSE),
              {"-"})

\* parts.filter(Boolean).join("/")
RECURSIVE joinNonEmpty(_)
joinNonEmpty(parts) ==
    IF parts = <<>> THEN <<>>
    ELSE LET rest == joinNonEmpty(Tail(parts)) IN
         IF Head(parts) = <<>> THEN rest
         ELSE IF rest = <<>> THEN Head(parts)
         ELSE Head(parts) \o <<"/">> \o rest

slugifyFolder(input) ==
    LET s == stripEnds(stripEnds(input, {" "}), {"/"})
        parts == split(s)
    IN  joinNonEmpty([i \in 1..Len(parts) |-> slugPart(parts[i])])

----------------------------------------------------------------------------
(* The gallery upload of the admin BlogEditor *)

\* useState("singapore") of selectedCountry (line 362); the country select
\* of the image list is left at its initial value
selectedCountry == "singapore"

\* the admin query of fetchGalleryImages (lines 614-618): every row of the
\* country
RECURSIVE selectCountry(_, _)
selectCountry(rows, c) ==
    IF rows = <<>> THEN <<>>
    ELSE IF Head(rows).country = c THEN <<Head(rows)>> \o selectCountry(Tail(rows), c)
    ELSE selectCountry(Tail(rows), c)

\* folderSafe (line 638)
folderSafeOf(form) ==
    IF Truthy(form.folder) THEN slugifyFolder(form.folder) ELSE <<>>

\* the validation of handleGalleryFileUpload (lines 630-642)
uploadVerdictRawFolder(form) ==
    IF form.files = 0 \/ ~Truthy(form.title) THEN "missing"
    ELSE IF form.files > 1 /\ ~Truthy(form.folder) THEN "folder"
    ELSE "ok"

\* a variant of the validation that does not look at the title
uploadVerdictIgnoresTitle(form) ==
    IF form.files = 0 THEN "missing"
    ELSE IF form.files > 1 /\ ~Truthy(folderSafeOf(form)) THEN "folder"
    ELSE "ok"

uploadVerdict(form) ==
    IF form.files = 0 \/ ~Truthy(form.title) THEN "missing"
    ELSE IF form.files > 1 /\ ~Truthy(folderSafeOf(form)) THEN "folder"
    ELSE "ok"

\* `gallery-${country}` (line 646), filePath (line 652), folder (line 666)
bucketOf(c) == <<"gallery-", c>>

storageKeyAlwaysPrefixed(folderSafe, fileName) == folderSafe \o <<"/">> \o fileName

storageKey(folderSafe, fileName) ==
    IF Truthy(folderSafe) THEN folderSafe \o <<"/">> \o fileName ELSE fileName

orNull(s) == IF Truthy(s) THEN s ELSE Null

\* the names `${Date.now()}-${Math.random()...}.${ext}` (line 651) can take
FileNames == {Str("n1"), Str("n2")}

\* the form after a successful batch (lines 678-685)
emptyForm(c) ==
    [title |-> <<>>, country |-> c, label |-> <<>>, folder |-> <<>>, files |-> 0]

FolderInputs == {<<>>, Str(" "), <<" ", "E", "/">>}
\* the forms that are submitted: for the country of the image list every
\* combination of folder and number of files with a title, one form for
\* the missing title and one for no file; for another country the single
\* file without folder
FormValues ==
    {f \in [title : {<<>>, Str("t")}, country : {"singapore", "myanmar"},
            label : {<<>>}, folder : FolderInputs, files : 0..MaxFiles] :
        /\ (f.title = <<>> \/ f.files = 0) =>
               /\ f.country = "singapore" /\ f.folder = <<>>
               /\ f.files <= 1
               /\ (f.title = <<>>) # (f.files = 0)
        /\ f.country # selectedCountry => (f.files = 1 /\ f.folder = <<>>)}

\* the operation of the map callback of one file (lines 649-669)
Task(name) == [stage |-> "uploading", name |-> name]

Batch(form, names) ==
    [country |-> form.country, label |-> form.label,
     folderSafe |-> folderSafeOf(form), settled |-> "pending",
     tasks |-> [i \in 1..form.files |-> Task(names[i])]]

keyOf(b, i) == storageKey(batches[b].folderSafe, batches[b].tasks[i].name)

\* a variant that uploads to the bucket of the image list's country
objectOfListBucket(b, i) == <<bucketOf(selectedCountry), keyOf(b, i)>>

objectOf(b, i) == <<bucketOf(batches[b].country), keyOf(b, i)>>

\* the messages the backend's errors carry (upErr.message, dbErr.message)
BackendMessages == {"m1", "m2"}

\* `Storage upload failed: ${upErr.message}` (line 655) and
\* `DB insert failed: ${dbErr.message}` (line 668)
uploadError(msg) == <<"Storage upload failed: ", msg>>
insertError(msg) == <<"DB insert failed: ", msg>>

\* the row of lines 659-667
rowOf(b, i) ==
    [id |-> Len(gallery) + 1,
     country |-> batches[b].country,
     label |-> orNull(batches[b].label),
     folder |-> orNull(batches[b].folderSafe),
     image_path |-> keyOf(b, i),
     by |-> <<b, i>>]

\* The form is filled with f (the onChange handlers of lines 876-901) and
\* submitted: handleGalleryFileUpload up to its await (lines 628-654).  A
\* rejected submission only shows its notification; an accepted one sets
\* uploadLoading and starts the storage upload of every file.  The submit
\* button is disabled while uploadLoading (line 907).
SubmitUpload(f) ==
    /\ ~uploadLoading
    /\ galleryUploadForm' = f
    /\ LET verdict == uploadVerdict(f) IN
       \/ /\ verdict = "missing"
          /\ toast' = <<"Missing required fields">>
          /\ UNCHANGED <<uploadLoading, batches>>
       \/ /\ verdict = "folder"
          /\ toast' = <<"Folder required">>
          /\ UNCHANGED <<uploadLoading, batches>>
       \/ /\ verdict = "ok"
          /\ Len(batches) < MaxBatches
          /\ \E names \in [1..f.files -> FileNames] :
                 batches' = Append(batches, Batch(f, names))
          /\ uploadLoading' = TRUE
          /\ UNCHANGED toast
    /\ UNCHANGED <<images, groupedImages, memo, gallery, pageVars, storage,
                   galleryImages, editorLoading, editorInflight, ops, blogVars>>

\* a variant of the catch that drops the message of the error
RejectedUnknown(b, message) ==
    /\ toast' = IF batches[b].settled = "pending"
                THEN <<"Upload failed", "Unknown error">> ELSE toast
    /\ uploadLoading' = IF batches[b].settled = "pending" THEN FALSE
                        ELSE uploadLoading
    /\ UNCHANGED <<galleryUploadForm, editorLoading, editorInflight>>

\* the catch and finally of the handler (lines 690-694), run once when the
\* first operation of the batch fails: Promise.all rejects with the error
\* of that operation and ignores the later ones
Rejected(b, message) ==
    /\ toast' = IF batches[b].settled = "pending"
                THEN <<"Upload failed">> \o message ELSE toast
    /\ uploadLoading' = IF batches[b].settled = "pending" THEN FALSE
                        ELSE uploadLoading
    /\ UNCHANGED <<galleryUploadForm, editorLoading, editorInflight>>

\* a variant of the catch that removes what the batch has created
UploadErrorRollsBack(b, i, msg) ==
    /\ batches[b].tasks[i].stage = "uploading"
    /\ batches' = [batches EXCEPT ![b].tasks[i].stage = "failed",
                                  ![b].settled = "rejected"]
    /\ Rejected(b, uploadError(msg))
    /\ storage' = storage \ {objectOf(b, j) : j \in DOMAIN batches[b].tasks}
    /\ gallery' = SelectSeq(gallery, LAMBDA row : row.by[1] # b)
    /\ UNCHANGED <<images, groupedImages, memo, pageVars, galleryImages, ops, blogVars>>

\* the storage upload of file i of batch b answers with an error (line
\* 655)
UploadError(b, i, msg) ==
    /\ batches[b].tasks[i].stage = "uploading"
    /\ batches' = [batches EXCEPT ![b].tasks[i].stage = "failed",
                                  ![b].settled = "rejected"]
    /\ Rejected(b, uploadError(msg))
    /\ UNCHANGED <<images, groupedImages, memo, gallery, pageVars, storage,
                   galleryImages, ops, blogVars>>

\* the response of the storage upload of file i of batch b (lines 654-659);
\* the store refuses a key that exists
UploadDone(b, i, ok) ==
    /\ batches[b].tasks[i].stage = "uploading"
    /\ IF ok
       THEN /\ objectOf(b, i) \notin storage
            /\ storage' = storage \cup {objectOf(b, i)}
            /\ batches' = [batches EXCEPT ![b].tasks[i].stage = "inserting"]
            /\ UNCHANGED <<toast, uploadLoading, galleryUploadForm,
                           editorLoading, editorInflight>>
            /\ UNCHANGED <<images, groupedImages, memo, gallery, pageVars,
                           galleryImages, ops, blogVars>>
       ELSE \E msg \in BackendMessages : UploadError(b, i, msg)

\* the rest of the handler once every operation of the batch succeeded
\* (lines 671-689, 693)
Resolved(b) ==
    /\ toast' = <<"Upload complete",
                  IF Len(batches[b].tasks) > 1 THEN "photos uploaded"
                  ELSE "Photo uploaded.">>
    /\ galleryUploadForm' = emptyForm(batches[b].country)
    /\ IF batches[b].country = selectedCountry
       THEN editorLoading' = TRUE /\ editorInflight' = editorInflight + 1
       ELSE UNCHANGED <<editorLoading, editorInflight>>
    /\ uploadLoading' = FALSE

\* the row insert of file i of batch b answers with an error (line 668)
InsertError(b, i, msg) ==
    /\ batches[b].tasks[i].stage = "inserting"
    /\ batches' = [batches EXCEPT ![b].tasks[i].stage = "failed",
                                  ![b].settled = "rejected"]
    /\ Rejected(b, insertError(msg))
    /\ UNCHANGED <<images, groupedImages, memo, gallery, pageVars, storage,
                   galleryImages, ops, blogVars>>

\* a variant of Promise.all that does not wait for the other operations
othersDoneNotAwaited(b, i) == TRUE

\* Promise.all (line 649) resolves with the operation of file i: every
\* other operation of the batch has resolved
othersDone(b, i) ==
    \A j \in DOMAIN batches[b].tasks :
        j # i => batches[b].tasks[j].stage = "done"

\* the response of the row insert of file i of batch b (lines 659-668)
InsertDone(b, i, ok) ==
    /\ batches[b].tasks[i].stage = "inserting"
    /\ IF ok
       THEN LET done == batches[b].settled = "pending" /\ othersDone(b, i)
            IN  /\ gallery' = <<rowOf(b, i)>> \o gallery
                /\ batches' = [batches EXCEPT
                                  ![b].tasks[i].stage = "done",
                                  ![b].settled = IF done THEN "resolved" ELSE @]
                /\ IF done THEN Resolved(b)
                   ELSE UNCHANGED <<toast, uploadLoading, galleryUploadForm,
                                    editorLoading, editorInflight>>
                /\ UNCHANGED <<images, groupedImages, memo, pageVars, storage,
                               galleryImages, ops, blogVars>>
       ELSE \E msg \in BackendMessages : InsertError(b, i, msg)

\* the response of a query of the admin fetchGalleryImages (lines 619-625)
EditorFetchResolve(ok) ==
    /\ editorInflight > 0
    /\ editorInflight' = editorInflight - 1
    /\ galleryImages' = IF ok THEN selectCountry(gallery, selectedCountry)
                        ELSE galleryImages
    /\ toast' = IF ok THEN toast ELSE <<"Error fetching images">>
    /\ editorLoading' = FALSE
    /\ UNCHANGED <<images, groupedImages, memo, gallery, pageVars,
                   galleryUploadForm, uploadLoading, batches, storage, ops, blogVars>>

\* the article form as it is mounted and after resetForm (lines 343-357,
\* 603-608)
emptyArticleForm ==
    [title |-> <<>>, slug |-> <<>>, content |-> FALSE, selectedFile |-> FALSE,
     editingId |-> Null]

\* the editor showing the gallery view: the effect of lines 399-403 has
\* started the first query
InitUpload ==
    /\ images = <<>>
    /\ groupedImages = NoGroups
    /\ memo = "fresh"
    /\ gallery = <<>>
    /\ toast = <<>>
    /\ PageUnmounted
    /\ galleryUploadForm = emptyForm("singapore")
    /\ uploadLoading = FALSE
    /\ batches = <<>>
    /\ storage = {}
    /\ galleryImages = <<>>
    /\ editorLoading = TRUE
    /\ editorInflight = 1
    /\ ops = <<>>
    /\ articles = <<>>
    /\ articleForm = emptyArticleForm

NextUpload ==
    \/ \E f \in FormValues : SubmitUpload(f)
    \/ \E b \in DOMAIN batches : \E i \in DOMAIN batches[b].tasks :
           \E ok \in BOOLEAN : UploadDone(b, i, ok)
    \/ \E b \in DOMAIN batches : \E i \in DOMAIN batches[b].tasks :
           \E ok \in BOOLEAN : InsertDone(b, i, ok)
    \/ \E ok \in BOOLEAN : EditorFetchResolve(ok)

SpecUpload == InitUpload /\ [][NextUpload]_vars


----------------------------------------------------------------------------
(* Claims about the public Gallery page (SpecNav) *)

\* the folder the address bar names: the decoded folder segment, Null when
\* the path has none
folderOfPath(p) ==
    IF matchFolder(p) = <<>> THEN Null ELSE decodeURIComponent(matchFolder(p)).value

AnyOpenFolder == \E k \in keysOf(groupedImages) : OpenFolder(k)

\* C1 (as claimed): once an address-bar change has been processed, the
\* selected folder is the folder the path names, and null when the path
\* has no folder segment.
C1_ViewStateFollowsPath ==
    ~crashed => selectedFolder = folderOfPath(CurPath)

\* C2: openFolder(k) followed by backToFolders leaves the address bar at
\* /gallery/<country> and the view at the folder list.
C2_OpenThenBackReturnsToRoot ==
    [][(lastOp = "openFolder" /\ BackToFolders) =>
          /\ history'[idx'] = rootPath(currentCountry)
          /\ selectedFolder' = Null
          /\ ~crashed' => view(loading', images', selectedFolder') = "folders"]_vars

C2_Witness ==
    /\ prevOp = "openFolder" /\ lastOp = "backToFolders"
    /\ CurPath = rootPath("singapore")
    /\ view(loading, images, selectedFolder) = "folders"

\* C3 (as claimed): openFolder and backToFolders each append one entry to
\* the history and replace none.
C3_BothTransitionsPush ==
    [][(AnyOpenFolder \/ BackToFolders) =>
          /\ Len(history') = Len(history) + 1
          /\ SubSeq(history', 1, Len(history)) = history]_vars

\* C3 (amended): openFolder(k) puts the entry /gallery/<country>/f/<escaped
\* k> right after the current entry, keeping the entries up to it and
\* dropping the forward ones; backToFolders replaces the current entry by
\* /gallery/<country> and leaves the length and the position unchanged.
C3_OpenPushesBackReplaces ==
    [][/\ \A k \in keysOf(groupedImages) :
              OpenFolder(k) =>
                  /\ idx' = idx + 1
                  /\ Len(history') = idx'
                  /\ history'[idx'] =
                         folderPath(currentCountry, encodeURIComponent(k))
                  /\ \A i \in 1..idx : history'[i] = history[i]
       /\ BackToFolders =>
              /\ idx' = idx
              /\ Len(history') = Len(history)
              /\ history'[idx] = rootPath(currentCountry)
              /\ \A i \in 1..Len(history) : i # idx => history'[i] = history[i]]_vars

C3_Witness ==
    /\ lastOp = "backToFolders"
    /\ Len(history) = 2 /\ idx = 2
    /\ history[1] = history[2]

\* C8 (as claimed): a selected folder that is no key of the group mapping
\* renders an empty detail list and raises no error.
C8_UnknownFolderRendersEmpty ==
    (/\ view(loading, images, selectedFolder) = "detail"
     /\ ~groupedImages.threw
     /\ selectedFolder \notin DOMAIN groupedImages.groups) =>
        /\ ~detailThrows(groupedImages, selectedFolder)
        /\ detailImages(groupedImages, selectedFolder) = <<>>

----------------------------------------------------------------------------
(* Claims about the gallery upload (SpecUpload) *)

\* the rows of table t that file i of batch b inserted
rowsBy(t, b) == {r \in 1..Len(t) : t[r].by[1] = b}

\* C9: a submission with more than one file and a blank folder name is
\* rejected before any network call: no upload, no insert and no query is
\* started, uploadLoading stays false, only the notification is shown.
C9_MultiFileNoFolderRejected ==
    [][\A f \in FormValues :
          (f.files > 1 /\ IsBlank(f.folder) /\ SubmitUpload(f)) =>
              /\ UNCHANGED <<batches, storage, gallery, galleryImages,
                             editorLoading, editorInflight>>
              /\ ~uploadLoading /\ ~uploadLoading'
              /\ galleryUploadForm' = f
              /\ toast' = IF Truthy(f.title) THEN <<"Folder required">>
                          ELSE <<"Missing required fields">>]_vars

C9_Witness ==
    /\ toast = <<"Folder required">>
    /\ galleryUploadForm.files > 1
    /\ galleryUploadForm.folder = Str(" ")
    /\ ~uploadLoading

\* C10: a submission with one file, a title and a blank folder name passes
\* validation and starts one upload; when its upload and its insert have
\* both succeeded, success is reported with exactly one row created, whose
\* folder is null and whose storage key is the bare generated file name.
C10_SingleFileNoFolderUploads ==
    [][/\ \A f \in FormValues :
              (/\ f.files = 1 /\ Truthy(f.title) /\ IsBlank(f.folder)
               /\ Len(batches) < MaxBatches
               /\ SubmitUpload(f)) =>
                  /\ uploadLoading'
                  /\ Len(batches') = Len(batches) + 1
                  /\ batches'[Len(batches')].folderSafe = <<>>
                  /\ Len(batches'[Len(batches')].tasks) = 1
                  /\ batches'[Len(batches')].tasks[1].stage = "uploading"
                  /\ UNCHANGED <<toast, gallery, storage>>
       /\ \A b \in DOMAIN batches :
              (/\ Len(batches[b].tasks) = 1 /\ batches[b].folderSafe = <<>>
               /\ batches[b].tasks[1].stage = "inserting"
               /\ batches'[b].tasks[1].stage = "done") =>
                  /\ batches'[b].settled = "resolved"
                  /\ toast' = <<"Upload complete", "Photo uploaded.">>
                  /\ ~uploadLoading'
                  /\ rowsBy(gallery, b) = {}
                  /\ Cardinality(rowsBy(gallery', b)) = 1
                  /\ Len(gallery') = Len(gallery) + 1
                  /\ \A r \in rowsBy(gallery', b) :
                         /\ gallery'[r].folder = Null
                         /\ gallery'[r].image_path = batches[b].tasks[1].name
                         /\ ~includes(gallery'[r].image_path, "/")
                         /\ <<bucketOf(gallery'[r].country), gallery'[r].image_path>>
                                \in storage']_vars

C10_Witness ==
    /\ toast = <<"Upload complete", "Photo uploaded.">>
    /\ \E b \in DOMAIN batches :
           /\ Len(batches[b].tasks) = 1
           /\ batches[b].folderSafe = <<>>
           /\ batches[b].settled = "resolved"
           /\ \E r \in rowsBy(gallery, b) :
                  gallery[r].folder = Null /\ gallery[r].image_path \in FileNames

\* C11: a submission with an empty title or with no file selected only
\* shows "Missing required fields": no upload, no insert and no query is
\* started, uploadLoading stays false, the form keeps what was entered and
\* the table and the image list are unchanged.
C11_MissingFieldsRejected ==
    [][\A f \in FormValues :
          ((f.files = 0 \/ f.title = <<>>) /\ SubmitUpload(f)) =>
              /\ UNCHANGED <<batches, storage, gallery, galleryImages,
                             editorLoading, editorInflight, ops, blogVars>>
              /\ ~uploadLoading /\ ~uploadLoading'
              /\ galleryUploadForm' = f
              /\ toast' = <<"Missing required fields">>]_vars

C11_Witness ==
    /\ toast = <<"Missing required fields">>
    /\ galleryUploadForm.title = <<>>
    /\ galleryUploadForm.files = 1
    /\ galleryImages # <<>>
    /\ ~uploadLoading

\* the rows of table t that file i of batch b inserted
rowsOf(t, b, i) == {r \in 1..Len(t) : t[r].by = <<b, i>>}

IsSuccessToast(t) == t # <<>> /\ t[1] = "Upload complete"

\* batch b reports its outcome in this step
Settles(b, outcome) ==
    batches[b].settled = "pending" /\ batches'[b].settled = outcome

\* C13: "Upload complete" is shown only in the step in which the last
\* operation of a batch succeeds; in that step every file of the batch has
\* gone through upload and insert (none is in flight, none failed), has
\* exactly one row and one stored object of its own, and uploadLoading is
\* cleared.
C13_SuccessAfterEveryFile ==
    [][/\ \A b \in DOMAIN batches :
              Settles(b, "resolved") =>
                  /\ IsSuccessToast(toast')
                  /\ ~uploadLoading'
                  /\ \A i \in DOMAIN batches[b].tasks :
                         /\ batches'[b].tasks[i].stage = "done"
                         /\ Cardinality(rowsOf(gallery', b, i)) = 1
                         /\ objectOf(b, i) \in storage'
                         /\ \A j \in DOMAIN batches[b].tasks :
                                j # i => objectOf(b, j) # objectOf(b, i)
       /\ (IsSuccessToast(toast') /\ toast' # toast) =>
              \E b \in DOMAIN batches : Settles(b, "resolved")]_vars

C13_Witness ==
    /\ IsSuccessToast(toast)
    /\ \E b \in DOMAIN batches :
           /\ batches[b].settled = "resolved"
           /\ Len(batches[b].tasks) = 2
           /\ \A i \in DOMAIN batches[b].tasks :
                  Cardinality(rowsOf(gallery, b, i)) = 1
           /\ Len(gallery) = 2

\* C14: a row is inserted only by the operation of a file whose storage
\* upload has succeeded, and it agrees with that upload: the object of key
\* image_path is stored in the bucket gallery-<row.country>, image_path is
\* the generated file name, prefixed by "<folder>/" exactly when the row's
\* folder is set, and the folder is the normalised folder of the batch, or
\* null when that is empty.
C14_RowAgreesWithUpload ==
    [][Len(gallery') > Len(gallery) =>
          LET r == gallery'[1]
              b == r.by[1]
              i == r.by[2]
          IN  /\ Len(gallery') = Len(gallery) + 1
              /\ b \in DOMAIN batches /\ i \in DOMAIN batches[b].tasks
              /\ batches[b].tasks[i].stage = "inserting"
              /\ <<<<"gallery-", r.country>>, r.image_path>> \in storage
              /\ r.country = batches[b].country
              /\ r.folder = IF batches[b].folderSafe = <<>> THEN Null
                            ELSE batches[b].folderSafe
              /\ r.image_path =
                     IF r.folder = Null THEN batches[b].tasks[i].name
                     ELSE r.folder \o <<"/">> \o batches[b].tasks[i].name]_vars

C14_Witness ==
    /\ \E r \in 1..Len(gallery) :
           /\ gallery[r].folder = Str("e")
           /\ gallery[r].image_path = <<"e", "/", "n1">>
           /\ <<<<"gallery-", "singapore">>, gallery[r].image_path>> \in storage
    /\ \E r \in 1..Len(gallery) :
           /\ gallery[r].country = "myanmar"
           /\ gallery[r].folder = Null
           /\ <<<<"gallery-", "myanmar">>, gallery[r].image_path>> \in storage

\* C15: the first operation of a batch that fails ends the batch with the
\* notification "Upload failed" carrying the stage ("Storage upload
\* failed: " or "DB insert failed: ") and the backend's message, and
\* clears uploadLoading; a batch that has failed never reports success, and
\* a failed operation is not started again.
C15_FailureNamesStage ==
    [][\A b \in DOMAIN batches : \A i \in DOMAIN batches[b].tasks :
          /\ \A msg \in BackendMessages :
                 /\ (UploadError(b, i, msg) /\ batches[b].settled = "pending") =>
                        /\ toast' = <<"Upload failed", "Storage upload failed: ", msg>>
                        /\ Settles(b, "rejected")
                        /\ ~uploadLoading'
                 /\ (InsertError(b, i, msg) /\ batches[b].settled = "pending") =>
                        /\ toast' = <<"Upload failed", "DB insert failed: ", msg>>
                        /\ Settles(b, "rejected")
                        /\ ~uploadLoading'
          /\ batches[b].tasks[i].stage = "failed" =>
                 /\ batches[b].settled = "rejected"
                 /\ batches'[b].tasks[i].stage = "failed"
                 /\ batches'[b].settled = "rejected"
                 /\ rowsOf(gallery', b, i) = {}
          /\ batches[b].settled = "rejected" =>
                 /\ batches'[b].settled = "rejected"
                 /\ (IsSuccessToast(toast') /\ toast' # toast) =>
                        \E c \in DOMAIN batches :
                            c # b /\ Settles(c, "resolved")]_vars

C15_Witness ==
    /\ toast = <<"Upload failed", "DB insert failed: ", "m2">>
    /\ ~uploadLoading
    /\ \E b \in DOMAIN batches :
           /\ batches[b].settled = "rejected"
           /\ Len(batches[b].tasks) = 2
           /\ batches[b].tasks[1].stage = "failed"
           /\ batches[b].tasks[2].stage = "done"

\* every row of table t is a row of table u
rowsKept(t, u) ==
    \A r \in 1..Len(t) : \E k \in 1..Len(u) : u[k] = t[r]

\* C22: no step of the upload handler removes a stored object or a row,
\* and the step in which a batch reports its failure changes neither the
\* store nor the table: what the other files of the batch have created
\* stays.
C22_NoRollback ==
    [][/\ storage \subseteq storage'
       /\ rowsKept(gallery, gallery')
       /\ \A b \in DOMAIN batches :
              Settles(b, "rejected") =>
                  storage' = storage /\ gallery' = gallery]_vars

\* a failed batch of two files, the other file stored and listed
C22_Witness ==
    \E b \in DOMAIN batches :
        /\ batches[b].settled = "rejected"
        /\ Len(batches[b].tasks) = 2
        /\ batches[b].tasks[1].stage = "failed"
        /\ objectOf(b, 2) \in storage
        /\ objectOf(b, 1) \notin storage
        /\ Cardinality(rowsOf(gallery, b, 2)) = 1

\* an operation of batch b awaits a response
InFlight(b) ==
    \E i \in DOMAIN batches[b].tasks :
        batches[b].tasks[i].stage \in {"uploading", "inserting"}

\* C25 (as claimed): uploadLoading is true whenever a storage upload or a
\* row insert of a submitted batch is in flight, and operations of at most
\* one batch are in flight at any time.
C25_LoadingWhileInFlight ==
    /\ (\E b \in DOMAIN batches : InFlight(b)) => uploadLoading
    /\ \A b, c \in DOMAIN batches : (InFlight(b) /\ InFlight(c)) => b = c

----------------------------------------------------------------------------
(* The image list of the admin BlogEditor: visibility toggle and delete *)

MaxOps == 3          \* most toggles, deletes and article handlers started

\* the closure of one handler call: the image it was called with, or the
\* article form it read, and the await it has reached
Op(kind, image, stage) ==
    [kind |-> kind, image |-> image, stage |-> stage, form |-> Null]

\* the list is rendered, with its buttons, when loading is false (lines
\* 916-948)
Listed(k) == ~editorLoading /\ k \in DOMAIN galleryImages

\* newLabel (line 747)
newLabel(image) == IF image.label = Str("private") THEN Null ELSE Str("private")

\* update({ label }).eq('id', id) (line 748)
updateLabel(rows, id, label) ==
    [r \in DOMAIN rows |->
        IF rows[r].id = id THEN [rows[r] EXCEPT !.label = label] ELSE rows[r]]

\* delete().eq('id', id) (line 735)
RECURSIVE deleteRow(_, _)
deleteRow(rows, id) ==
    IF rows = <<>> THEN <<>>
    ELSE IF Head(rows).id = id THEN deleteRow(Tail(rows), id)
    ELSE <<Head(rows)>> \o deleteRow(Tail(rows), id)

\* fetchGalleryImages() called by a handler (lines 739, 754): setLoading
\* and the query
StartEditorFetch ==
    /\ editorLoading' = TRUE
    /\ editorInflight' = editorInflight + 1

\* toggleGalleryVisibility up to its await (lines 745-748), the
\* onCheckedChange of the checkbox of image k (line 939)
ToggleVisibility(k) ==
    /\ Listed(k)
    /\ Len(ops) < MaxOps
    /\ ops' = Append(ops, Op("toggle", galleryImages[k], "updating"))
    /\ UNCHANGED <<images, groupedImages, memo, gallery, toast, pageVars,
                   galleryUploadForm, uploadLoading, batches, storage,
                   galleryImages, editorLoading, editorInflight,
                   blogVars>>

\* the response of the update of toggle o (lines 748-757)
ToggleDone(o, ok) ==
    /\ ops[o].kind = "toggle"
    /\ ops[o].stage = "updating"
    /\ IF ok
       THEN /\ gallery' = updateLabel(gallery, ops[o].image.id, newLabel(ops[o].image))
            /\ toast' = <<"Visibility updated",
                          IF newLabel(ops[o].image) = Str("private")
                          THEN "hidden from" ELSE "visible to">>
            /\ StartEditorFetch
            /\ ops' = [ops EXCEPT ![o].stage = "done"]
       ELSE /\ \E msg \in BackendMessages : toast' = <<"Update failed", msg>>
            /\ ops' = [ops EXCEPT ![o].stage = "failed"]
            /\ UNCHANGED <<gallery, editorLoading, editorInflight>>
    /\ UNCHANGED <<images, groupedImages, memo, pageVars, galleryUploadForm,
                   uploadLoading, batches, storage, galleryImages,
                   blogVars>>

\* handleGalleryDelete up to its first await (lines 727-732), confirmed in
\* the dialog: the onClick of the Delete button of image k (line 933)
DeleteImage(k) ==
    /\ Listed(k)
    /\ Len(ops) < MaxOps
    /\ ops' = Append(ops, Op("delete", galleryImages[k], "removing"))
    /\ UNCHANGED <<images, groupedImages, memo, gallery, toast, pageVars,
                   galleryUploadForm, uploadLoading, batches, storage,
                   galleryImages, editorLoading, editorInflight,
                   blogVars>>

\* a variant in which the error of the storage removal is thrown
StorageRemoveDoneThrows(o, ok) ==
    /\ ops[o].kind = "delete"
    /\ ops[o].stage = "removing"
    /\ storage' = IF ok
                  THEN storage \ {<<bucketOf(ops[o].image.country),
                                    ops[o].image.image_path>>}
                  ELSE storage
    /\ ops' = [ops EXCEPT ![o].stage = IF ok THEN "deleting" ELSE "failed"]
    /\ toast' = IF ok THEN toast ELSE <<"Delete failed", "m1">>
    /\ UNCHANGED <<images, groupedImages, memo, gallery, pageVars,
                   galleryUploadForm, uploadLoading, batches, galleryImages,
                   editorLoading, editorInflight,
                   blogVars>>

\* the response of the storage removal of delete o (lines 730-735): its
\* error is logged, and the row delete is sent either way
StorageRemoveDone(o, ok) ==
    /\ ops[o].kind = "delete"
    /\ ops[o].stage = "removing"
    /\ storage' = IF ok
                  THEN storage \ {<<bucketOf(ops[o].image.country),
                                    ops[o].image.image_path>>}
                  ELSE storage
    /\ ops' = [ops EXCEPT ![o].stage = "deleting"]
    /\ UNCHANGED <<images, groupedImages, memo, gallery, toast, pageVars,
                   galleryUploadForm, uploadLoading, batches, galleryImages,
                   editorLoading, editorInflight,
                   blogVars>>

\* the response of the row delete of delete o (lines 735-742)
RowDeleteDone(o, ok) ==
    /\ ops[o].kind = "delete"
    /\ ops[o].stage = "deleting"
    /\ IF ok
       THEN /\ gallery' = deleteRow(gallery, ops[o].image.id)
            /\ toast' = <<"Image deleted successfully">>
            /\ StartEditorFetch
            /\ ops' = [ops EXCEPT ![o].stage = "done"]
       ELSE /\ \E msg \in BackendMessages : toast' = <<"Delete failed", msg>>
            /\ ops' = [ops EXCEPT ![o].stage = "failed"]
            /\ UNCHANGED <<gallery, editorLoading, editorInflight>>
    /\ UNCHANGED <<images, groupedImages, memo, pageVars, galleryUploadForm,
                   uploadLoading, batches, storage, galleryImages,
                   blogVars>>

\* the rows and the stored objects the image list is run against
AdminTables == {
    <<Row(3, "singapore", Str("x"), Null, Str("n3")),
      Row(2, "singapore", Str("private"), Str("k"), <<"k", "/", "n2">>),
      Row(1, "singapore", Null, Null, Str("n1"))>>,
    <<Row(2, "myanmar", Null, Null, Str("n2")),
      Row(1, "singapore", Null, Null, Str("n1"))>> }

objectsOf(rows) ==
    {<<bucketOf(rows[r].country), rows[r].image_path>> : r \in DOMAIN rows}

\* the editor showing the gallery view of a filled table: the effect of
\* lines 399-403 has started the first query
InitAdmin ==
    /\ images = <<>>
    /\ groupedImages = NoGroups
    /\ memo = "fresh"
    /\ gallery \in AdminTables
    /\ toast = <<>>
    /\ PageUnmounted
    /\ galleryUploadForm = emptyForm("singapore")
    /\ uploadLoading = FALSE
    /\ batches = <<>>
    /\ storage = objectsOf(gallery)
    /\ galleryImages = <<>>
    /\ editorLoading = TRUE
    /\ editorInflight = 1
    /\ ops = <<>>
    /\ articles = <<>>
    /\ articleForm = emptyArticleForm

NextAdmin ==
    \/ \E k \in DOMAIN galleryImages : ToggleVisibility(k)
    \/ \E o \in DOMAIN ops, ok \in BOOLEAN : ToggleDone(o, ok)
    \/ \E k \in DOMAIN galleryImages : DeleteImage(k)
    \/ \E o \in DOMAIN ops, ok \in BOOLEAN : StorageRemoveDone(o, ok)
    \/ \E o \in DOMAIN ops, ok \in BOOLEAN : RowDeleteDone(o, ok)
    \/ \E ok \in BOOLEAN : EditorFetchResolve(ok)

SpecAdmin == InitAdmin /\ [][NextAdmin]_vars

----------------------------------------------------------------------------
(* Claims about the image list of the editor (SpecAdmin) *)

ids(rows) == {rows[r].id : r \in DOMAIN rows}

IsToggleOf(o, id) == ops[o].kind = "toggle" /\ ops[o].image.id = id

\* C16 (as claimed): when an image has been toggled twice, both updates
\* acknowledged, the second toggle applied to the image as the list showed
\* it after the first (its label differs from the one the first toggle
\* saw), the label of its row is the label it had before the first toggle.
C16_ToggleTwiceRestoresLabel ==
    \A a, b \in DOMAIN ops :
        (/\ a < b
         /\ IsToggleOf(a, ops[a].image.id) /\ IsToggleOf(b, ops[a].image.id)
         /\ ops[a].stage = "done" /\ ops[b].stage = "done"
         /\ ops[b].image.label # ops[a].image.label
         /\ \A c \in DOMAIN ops \ {a, b} : ~IsToggleOf(c, ops[a].image.id)) =>
            \A r \in DOMAIN gallery :
                gallery[r].id = ops[a].image.id =>
                    gallery[r].label = ops[a].image.label

\* C17: a delete first waits for the answer of the storage removal and
\* sends the row delete whatever that answer is; a row leaves the table
\* only in the step that acknowledges the row delete of a delete that is
\* past its storage removal; that step starts a query, and every query
\* answered afterwards lists no image whose row delete was acknowledged.
C17_DeleteRemovesRow ==
    [][/\ \A o \in DOMAIN ops : \A ok \in BOOLEAN :
              StorageRemoveDone(o, ok) =>
                  /\ ops'[o].stage = "deleting"
                  /\ gallery' = gallery
                  /\ ok => <<bucketOf(ops[o].image.country),
                              ops[o].image.image_path>> \notin storage'
       /\ ids(gallery') # ids(gallery) =>
              \E o \in DOMAIN ops :
                  /\ ops[o].kind = "delete"
                  /\ ops[o].stage = "deleting" /\ ops'[o].stage = "done"
                  /\ ids(gallery') = ids(gallery) \ {ops[o].image.id}
                  /\ editorLoading' /\ editorInflight' = editorInflight + 1
       /\ galleryImages' # galleryImages =>
              \A o \in DOMAIN ops :
                  (ops[o].kind = "delete" /\ ops[o].stage = "done") =>
                      ops[o].image.id \notin ids(galleryImages')]_vars

C17_Witness ==
    \E o \in DOMAIN ops :
        /\ ops[o].kind = "delete" /\ ops[o].stage = "done"
        /\ <<bucketOf(ops[o].image.country), ops[o].image.image_path>> \in storage
        /\ ops[o].image.id \notin ids(gallery)
        /\ editorInflight = 0
        /\ galleryImages # <<>>
        /\ ops[o].image.id \notin ids(galleryImages)

----------------------------------------------------------------------------
(* Claims about the public listing (SpecNav) *)

\* C18: when a query of the public page for country c is answered, every
\* image of the new list is a row of country c of the table whose label is
\* absent or differs from "private", and every image of every folder group
\* is an image of that list.
C18_PublicListingExcludesPrivate ==
    [][\A c \in DOMAIN inflight :
          FetchResolve(c, TRUE) =>
              /\ \A i \in DOMAIN images' :
                     \E r \in DOMAIN gallery :
                         /\ gallery[r].id = images'[i].id
                         /\ gallery[r].country = c
                         /\ gallery[r].label # Str("private")
              /\ \A k \in keysOf(groupedImages') :
                     \A j \in DOMAIN groupedImages'.groups[k] :
                         \E i \in DOMAIN images' :
                             images'[i] = groupedImages'.groups[k][j]]_vars

C18_Witness ==
    /\ ~loading
    /\ \E r \in DOMAIN gallery :
           /\ gallery[r].label = Str("private")
           /\ gallery[r].country = currentCountry
           /\ gallery[r].id \notin ids(images)
    /\ \E r \in DOMAIN gallery :
           /\ gallery[r].label = Str("x")
           /\ gallery[r].id \in ids(images)
    /\ keysOf(groupedImages) # {}

\* C24 (as claimed): the response of a query started for a country that
\* is no longer the current one does not replace the displayed images, so
\* once no query is in flight the images are the public rows of the
\* current country whenever they are the answer of a query.
C24_StaleResponseIgnored ==
    [][\A c \in DOMAIN inflight :
          (c # currentCountry /\ FetchResolve(c, TRUE)) =>
              images' = images]_vars

----------------------------------------------------------------------------
(* SpecCountry: the public page mounted on every bounded path *)

\* the country segments and the folder segments of the paths: the folder
\* segment is what follows /f/ (the group of the pattern of line 101),
\* here a key, a country name, an escaped "/myanmar/", and a country name
\* followed by a trailing slash
PathCountries == {"singapore", "myanmar", "Myanmar", "sri-lanka", "srilanka",
                  "bangladesh", "pakistan", "india"}
PathSegments == {Str("k"), Str("myanmar"), Str("sri-lanka"), Str("pakistan"),
                 encodeURIComponent(<<"/", "myanmar", "/">>),
                 <<"myanmar", "/">>, <<"singapore", "/">>}
CountryPaths ==
    {<<"/", "gallery">>}
    \cup {rootPath(c) : c \in PathCountries}
    \cup {folderPath(c, s) : c \in PathCountries, s \in PathSegments}

\* the address bar holds the path, the page has not rendered yet
InitCountry ==
    /\ images = <<>>
    /\ groupedImages = NoGroups
    /\ memo = "fresh"
    /\ gallery = <<>>
    /\ toast = <<>>
    /\ history \in {<<p>> : p \in CountryPaths}
    /\ idx = 1
    /\ selectedFolder = Null
    /\ loading = TRUE
    /\ inflight = <<>>
    /\ crashed = FALSE
    /\ lastOp = "other"
    /\ prevOp = "other"
    /\ EditorUnmounted

\* the first render and its effects (lines 94-105): the query of
\* currentCountry is sent, the folder of the path is selected
Mount ==
    /\ DOMAIN inflight = {}
    /\ LET sync == deepLinkSync(CurPath, Null) IN
       /\ selectedFolder' = sync.sf
       /\ crashed' = sync.threw
    /\ inflight' = (getCurrentCountry(CurPath) :> 1)
    /\ UNCHANGED <<images, groupedImages, memo, gallery, toast, history, idx,
                   loading, lastOp, prevOp, editorVars>>

NextCountry == Mount

SpecCountry == InitCountry /\ [][NextCountry]_vars

\* the canonical code of a country segment
canonical(c) == IF lowerAtom(c) = "sri-lanka" THEN "srilanka" ELSE lowerAtom(c)

\* C20 (as claimed): the country the mounted page queries is "singapore"
\* for /gallery and the canonical code of <c> ("srilanka" for "sri-lanka")
\* for /gallery/<c> and for /gallery/<c>/f/<folder>, whatever the folder
\* segment holds.
C20_CountryFromPath ==
    \A q \in DOMAIN inflight :
        /\ CurPath = <<"/", "gallery">> => q = "singapore"
        /\ Len(CurPath) >= 4 => q = canonical(CurPath[4])

\* countryNames and countryFlags (lines 47-60): the display name and the
\* flag of each country code
countryNames ==
    [c \in {"myanmar", "singapore", "bangladesh", "pakistan", "srilanka"} |->
        CASE c = "myanmar" -> "Myanmar"
          [] c = "singapore" -> "Singapore"
          [] c = "bangladesh" -> "Bangladesh"
          [] c = "pakistan" -> "Pakistan"
          [] c = "srilanka" -> "Sri Lanka"]
countryFlags ==
    [c \in {"myanmar", "singapore", "bangladesh", "pakistan", "srilanka"} |->
        CASE c = "myanmar" -> "MM"
          [] c = "singapore" -> "SG"
          [] c = "bangladesh" -> "BD"
          [] c = "pakistan" -> "PK"
          [] c = "srilanka" -> "LK"]

\* C21 (as claimed): for every address-bar path the resolved current
\* country is one of the five codes myanmar, singapore, bangladesh,
\* pakistan, srilanka, and has a display name and a flag.
C21_CountryIsClosedEnumeration ==
    /\ currentCountry \in {"myanmar", "singapore", "bangladesh", "pakistan",
                           "srilanka"}
    /\ currentCountry \in DOMAIN countryNames
    /\ currentCountry \in DOMAIN countryFlags

----------------------------------------------------------------------------
(* The article form of the admin BlogEditor *)

\* the atoms of [a-z0-9]
AlnumAtoms == SlugAtoms \ {"-", "_"}

\* value.replace(/[^a-z0-9]+/g, '-'): every run of other atoms becomes "-"
RECURSIVE dashRunsAlnum(_, _)
dashRunsAlnum(s, inRun) ==
    IF s = <<>> THEN <<>>
    ELSE IF Head(s) \in AlnumAtoms
         THEN <<Head(s)>> \o dashRunsAlnum(Tail(s), FALSE)
    ELSE IF inRun THEN dashRunsAlnum(Tail(s), TRUE)
    ELSE <<"-">> \o dashRunsAlnum(Tail(s), TRUE)

\* s.replace(/(^-|-$)/g, ''): one "-" at the start and one at the end
stripOneDash(s) ==
    LET a == IF s # <<>> /\ Head(s) = "-" THEN Tail(s) ELSE s
    IN  IF a # <<>> /\ a[Len(a)] = "-" THEN SubSeq(a, 1, Len(a) - 1) ELSE a

\* generateSlug (lines 427-428)
generateSlug(value) ==
    stripOneDash(dashRunsAlnum(
        [i \in 1..Len(value) |-> toLowerAtomOfName(value[i])], FALSE))

\* the article form as handleSubmit reads it (lines 543, 549, 560):
\* content stands for content and excerpt being filled, selectedFile for a
\* file being selected
ArticleForms ==
    [title : {<<>>, Str("t")}, slug : {<<>>, Str("t")}, content : BOOLEAN,
     selectedFile : BOOLEAN, editingId : {Null}]

\* !title || !content || !excerpt || !slug (line 543)
missingFields(f) == ~Truthy(f.title) \/ ~f.content \/ ~Truthy(f.slug)

\* the public URL uploadBlogImage returns (lines 535-538)
BlogImageUrl == Str("u")

\* the columns of articleData that are modelled (lines 551-559)
articleData(f) ==
    [title |-> f.title, slug |-> f.slug,
     featured_image |-> IF f.selectedFile THEN BlogImageUrl ELSE Null]

ArticleIds == <<Str("a1"), Str("a2"), Str("a3")>>

\* from('articles').update(data).eq('id', id) (line 561)
updateArticle(rows, id, data) ==
    [r \in 1..Len(rows) |->
        IF rows[r].id = id
        THEN [id |-> id, title |-> data.title, slug |-> data.slug,
              featured_image |-> data.featured_image]
        ELSE rows[r]]

\* from('articles').insert([data]) (line 565)
insertArticle(rows, data) ==
    Append(rows, [id |-> ArticleIds[Len(rows) + 1], title |-> data.title,
                  slug |-> data.slug, featured_image |-> data.featured_image])

ArticleOp(form, stage) ==
    [kind |-> "article", image |-> Null, stage |-> stage, form |-> form]

\* fetchArticles up to its await (lines 411-417)
ArticlesQuery == Op("fetchArticles", Null, "querying")

\* a variant that derives the slug while an article is edited too
HandleTitleChangeAlways(value) ==
    /\ articleForm' = [articleForm EXCEPT !.title = value,
                                          !.slug = generateSlug(value)]
    /\ UNCHANGED <<images, groupedImages, memo, gallery, toast, pageVars,
                   galleryUploadForm, uploadLoading, batches, storage,
                   galleryImages, editorLoading, editorInflight, ops,
                   articles>>

\* handleTitleChange (lines 430-437), the onChange of the title input
\* (line 772)
HandleTitleChange(value) ==
    /\ articleForm' = [articleForm EXCEPT
                          !.title = value,
                          !.slug = IF ~Truthy(articleForm.editingId)
                                   THEN generateSlug(value) ELSE @]
    /\ UNCHANGED <<images, groupedImages, memo, gallery, toast, pageVars,
                   galleryUploadForm, uploadLoading, batches, storage,
                   galleryImages, editorLoading, editorInflight, ops,
                   articles>>

\* the onChange of the content and excerpt inputs (lines 787, 828), both
\* filled
SetContent ==
    /\ ~articleForm.content
    /\ articleForm' = [articleForm EXCEPT !.content = TRUE]
    /\ UNCHANGED <<images, groupedImages, memo, gallery, toast, pageVars,
                   galleryUploadForm, uploadLoading, batches, storage,
                   galleryImages, editorLoading, editorInflight, ops,
                   articles>>

\* handleFileChange with a file (lines 458-460)
HandleFileChange ==
    /\ ~articleForm.selectedFile
    /\ articleForm' = [articleForm EXCEPT !.selectedFile = TRUE]
    /\ UNCHANGED <<images, groupedImages, memo, gallery, toast, pageVars,
                   galleryUploadForm, uploadLoading, batches, storage,
                   galleryImages, editorLoading, editorInflight, ops,
                   articles>>

\* handleEdit (lines 578-589) called with article k; the selected file is
\* left as it is
HandleEdit(k) ==
    /\ k \in DOMAIN articles
    /\ articleForm' = [articleForm EXCEPT !.title = articles[k].title,
                                          !.slug = articles[k].slug,
                                          !.content = TRUE,
                                          !.editingId = articles[k].id]
    /\ UNCHANGED <<images, groupedImages, memo, gallery, toast, pageVars,
                   galleryUploadForm, uploadLoading, batches, storage,
                   galleryImages, editorLoading, editorInflight, ops,
                   articles>>

\* resetForm (lines 603-608) as the onClick of Cancel, shown while an
\* article is edited (line 846)
ResetForm ==
    /\ Truthy(articleForm.editingId)
    /\ articleForm' = emptyArticleForm
    /\ UNCHANGED <<images, groupedImages, memo, gallery, toast, pageVars,
                   galleryUploadForm, uploadLoading, batches, storage,
                   galleryImages, editorLoading, editorInflight, ops,
                   articles>>

\* The form holds f and is submitted: handleSubmit up to its first await
\* (lines 541-565).  The submit button is disabled while loading (line
\* 845).
SubmitArticle(f) ==
    /\ ~editorLoading
    /\ articleForm' = f
    /\ IF missingFields(f)
       THEN /\ toast' = <<"Error", "Please fill in all required fields">>
            /\ UNCHANGED <<editorLoading, ops>>
       ELSE /\ Len(ops) + 2 <= MaxOps
            /\ editorLoading' = TRUE
            /\ ops' = Append(ops, ArticleOp(f, IF f.selectedFile THEN "image"
                                               ELSE "saving"))
            /\ UNCHANGED toast
    /\ UNCHANGED <<images, groupedImages, memo, gallery, pageVars,
                   galleryUploadForm, uploadLoading, batches, storage,
                   galleryImages, editorInflight, articles>>

\* a variant of the catch of handleSubmit without its finally
ArticleFailedKeepsLoading(o, msg) ==
    /\ toast' = <<"Error", msg>>
    /\ editorLoading' = editorLoading
    /\ ops' = [ops EXCEPT ![o].stage = "failed"]
    /\ UNCHANGED blogVars

\* the catch and finally of handleSubmit (lines 571-575)
ArticleFailed(o, msg) ==
    /\ toast' = <<"Error", msg>>
    /\ editorLoading' = FALSE
    /\ ops' = [ops EXCEPT ![o].stage = "failed"]
    /\ UNCHANGED blogVars

\* the response of uploadBlogImage of submit o (lines 531-538, 550)
ArticleImageDone(o, ok) ==
    /\ ops[o].kind = "article"
    /\ ops[o].stage = "image"
    /\ IF ok
       THEN /\ ops' = [ops EXCEPT ![o].stage = "saving"]
            /\ UNCHANGED <<toast, editorLoading, blogVars>>
       ELSE \E msg \in BackendMessages : ArticleFailed(o, msg)
    /\ UNCHANGED <<images, groupedImages, memo, gallery, pageVars,
                   galleryUploadForm, uploadLoading, batches, storage,
                   galleryImages, editorInflight>>

\* the response of the update or insert of submit o (lines 560-575): on
\* success resetForm, fetchArticles() (which sets loading) and then the
\* finally, which clears loading while the query is in flight
ArticleSaveDone(o, ok) ==
    /\ ops[o].kind = "article"
    /\ ops[o].stage = "saving"
    /\ IF ok
       THEN /\ articles' =
                   IF Truthy(ops[o].form.editingId)
                   THEN updateArticle(articles, ops[o].form.editingId,
                                      articleData(ops[o].form))
                   ELSE insertArticle(articles, articleData(ops[o].form))
            /\ toast' = <<"Success",
                          IF Truthy(ops[o].form.editingId)
                          THEN "Article updated successfully"
                          ELSE "Article created successfully">>
            /\ articleForm' = emptyArticleForm
            /\ ops' = Append([ops EXCEPT ![o].stage = "done"], ArticlesQuery)
            /\ editorLoading' = FALSE
       ELSE \E msg \in BackendMessages : ArticleFailed(o, msg)
    /\ UNCHANGED <<images, groupedImages, memo, gallery, pageVars,
                   galleryUploadForm, uploadLoading, batches, storage,
                   galleryImages, editorInflight>>

\* the response of the query of fetchArticles o (lines 418-424)
ArticlesFetchResolve(o, ok) ==
    /\ ops[o].kind = "fetchArticles"
    /\ ops[o].stage = "querying"
    /\ ops' = [ops EXCEPT ![o].stage = IF ok THEN "done" ELSE "failed"]
    /\ IF ok THEN UNCHANGED toast
       ELSE \E msg \in BackendMessages : toast' = <<"Error", msg>>
    /\ editorLoading' = FALSE
    /\ UNCHANGED <<images, groupedImages, memo, gallery, pageVars,
                   galleryUploadForm, uploadLoading, batches, storage,
                   galleryImages, editorInflight, blogVars>>

----------------------------------------------------------------------------
(* SpecLive: the public page or the editor, every request answered *)

\* the upload forms that are submitted: one without title, one with two
\* files and a blank folder, one with a file and a folder
LiveForms ==
    {f \in FormValues :
        /\ f.country = "singapore"
        /\ \/ f.title = <<>>
           \/ f.files = 2 /\ f.folder = Str(" ")
           \/ f.files = 1 /\ f.folder = <<" ", "E", "/">>}

\* the article forms that are submitted: the empty one, and a new article
\* with every field filled and a featured image
LiveArticleForms ==
    {f \in ArticleForms :
        \/ f = emptyArticleForm
        \/ Truthy(f.title) /\ Truthy(f.slug) /\ f.content /\ f.selectedFile}

PageMounted == idx > 0
EditorMounted == galleryUploadForm # <<>>

\* one route is rendered at a time: the public page on an inbound link, or
\* the editor
InitLive == InitNav \/ InitUpload

FetchAnswered == \E c \in DOMAIN inflight, ok \in BOOLEAN : FetchResolve(c, ok)
UploadAnswered ==
    \E b \in DOMAIN batches : \E i \in DOMAIN batches[b].tasks :
        \E ok \in BOOLEAN : UploadDone(b, i, ok)
InsertAnswered ==
    \E b \in DOMAIN batches : \E i \in DOMAIN batches[b].tasks :
        \E ok \in BOOLEAN : InsertDone(b, i, ok)
EditorFetchAnswered == \E ok \in BOOLEAN : EditorFetchResolve(ok)
ArticleImageAnswered == \E o \in DOMAIN ops, ok \in BOOLEAN : ArticleImageDone(o, ok)
ArticleSaveAnswered == \E o \in DOMAIN ops, ok \in BOOLEAN : ArticleSaveDone(o, ok)
ArticlesFetchAnswered ==
    \E o \in DOMAIN ops, ok \in BOOLEAN : ArticlesFetchResolve(o, ok)

NextLive ==
    \/ PageMounted /\ \E c \in NavCountries : NavigateCountry(c)
    \/ PageMounted /\ BrowserBack
    \/ FetchAnswered
    \/ EditorMounted /\ \E f \in LiveForms : SubmitUpload(f)
    \/ UploadAnswered
    \/ InsertAnswered
    \/ EditorFetchAnswered
    \/ EditorMounted /\ \E f \in LiveArticleForms : SubmitArticle(f)
    \/ ArticleImageAnswered
    \/ ArticleSaveAnswered
    \/ ArticlesFetchAnswered

\* every awaited request is answered, with its data or with an error
Answered ==
    /\ WF_vars(FetchAnswered)
    /\ WF_vars(UploadAnswered)
    /\ WF_vars(InsertAnswered)
    /\ WF_vars(EditorFetchAnswered)
    /\ WF_vars(ArticleImageAnswered)
    /\ WF_vars(ArticleSaveAnswered)
    /\ WF_vars(ArticlesFetchAnswered)

SpecLive == InitLive /\ [][NextLive]_vars /\ Answered

\* C19: the step in which a public query, an admin gallery query, an
\* article submit or the first operation of an upload batch fails clears
\* the indicator of its handler (loading, the editor's loading,
\* uploadLoading), and no indicator stays true for ever: whenever one is
\* true it becomes false later (for the public page unless a render threw
\* and the page is gone).
C19_LoadingCleared ==
    /\ [][/\ (\E c \in DOMAIN inflight : FetchResolve(c, FALSE)) => ~loading'
          /\ EditorFetchResolve(FALSE) => ~editorLoading'
          /\ \A o \in DOMAIN ops :
                 (/\ ops[o].kind = "article"
                  /\ ops[o].stage # "failed"
                  /\ ops'[o].stage = "failed") => ~editorLoading'
          /\ \A b \in DOMAIN batches :
                 Settles(b, "rejected") => ~uploadLoading']_vars
    /\ (loading /\ ~crashed) ~> (~loading \/ crashed)
    /\ editorLoading ~> ~editorLoading
    /\ uploadLoading ~> ~uploadLoading

C19_Witness ==
    /\ ~uploadLoading /\ ~editorLoading
    /\ toast = <<"Error fetching images">>
    /\ \E b \in DOMAIN batches : batches[b].settled = "rejected"
    /\ \E o \in DOMAIN ops : ops[o].kind = "article" /\ ops[o].stage = "failed"

----------------------------------------------------------------------------
(* SpecTitle: the title input of the article form, every bounded title *)

MaxTitleLen == 4     \* most atoms of a title typed into the article form

TitleAtoms == {"E", "0", " ", "-", "_"}
Titles == UNION {[1..n -> TitleAtoms] : n \in 0..MaxTitleLen}

\* the rows of table articles the editor is run against; handleEdit is
\* called with a row of the table
ArticleTables == {
    <<[id |-> ArticleIds[1], title |-> Str("t"), slug |-> Str("t"),
       featured_image |-> Str("img")],
      [id |-> ArticleIds[2], title |-> Str("e"), slug |-> Str("x"),
       featured_image |-> Null]>>}

\* the editor showing the blog view, the query of the mount effect (lines
\* 389-397) answered
InitArticle ==
    /\ images = <<>>
    /\ groupedImages = NoGroups
    /\ memo = "fresh"
    /\ gallery = <<>>
    /\ toast = <<>>
    /\ PageUnmounted
    /\ galleryUploadForm = emptyForm("singapore")
    /\ uploadLoading = FALSE
    /\ batches = <<>>
    /\ storage = {}
    /\ galleryImages = <<>>
    /\ editorLoading = FALSE
    /\ editorInflight = 0
    /\ ops = <<>>
    /\ articles \in ArticleTables
    /\ articleForm = emptyArticleForm

NextTitle ==
    \/ \E v \in Titles : HandleTitleChange(v)
    \/ \E k \in DOMAIN articles : HandleEdit(k)
    \/ ResetForm

SpecTitle == InitArticle /\ [][NextTitle]_vars

\* the maximal runs of atoms of [a-z0-9] in s, cur being the run at hand
RECURSIVE alnumWords(_, _)
alnumWords(s, cur) ==
    LET done == IF cur = <<>> THEN <<>> ELSE <<cur>> IN
    IF s = <<>> THEN done
    ELSE IF Head(s) \in AlnumAtoms
         THEN alnumWords(Tail(s), Append(cur, Head(s)))
    ELSE done \o alnumWords(Tail(s), <<>>)

RECURSIVE joinDash(_)
joinDash(ws) ==
    IF ws = <<>> THEN <<>>
    ELSE IF Len(ws) = 1 THEN ws[1]
    ELSE ws[1] \o <<"-">> \o joinDash(Tail(ws))

\* the slug derived from a title: the words of the lower-cased title (its
\* maximal runs of [a-z0-9]) joined by one "-" each
derivedSlug(v) ==
    joinDash(alnumWords([i \in 1..Len(v) |-> toLowerAtomOfName(v[i])], <<>>))

\* C23: a title change (the step of handleTitleChange called with the
\* title the form holds afterwards), while no article is edited, sets the
\* slug to the slug derived from the new title; while an article is
\* edited it leaves the slug as it is.
C23_SlugFollowsTitleUnlessEditing ==
    [][HandleTitleChange(articleForm'.title) =>
          /\ ~Truthy(articleForm.editingId) =>
                 articleForm'.slug = derivedSlug(articleForm'.title)
          /\ Truthy(articleForm.editingId) =>
                 articleForm'.slug = articleForm.slug]_vars

\* an article is edited, its title was changed and its slug is the stored
\* one
C23_Witness ==
    /\ articleForm.editingId = ArticleIds[1]
    /\ articleForm.title = <<"E", " ", "_", "0">>
    /\ articleForm.slug = Str("t")

----------------------------------------------------------------------------
(* SpecArticle: the article form edited and submitted *)

\* the titles that are typed
TitleInputs == {<<>>, <<"E", " ", "0">>}

\* the form submitted as it stands
SubmitArticleForm == SubmitArticle(articleForm)

NextArticle ==
    \/ \E v \in TitleInputs : HandleTitleChange(v)
    \/ SetContent
    \/ HandleFileChange
    \/ \E k \in DOMAIN articles : HandleEdit(k)
    \/ ResetForm
    \/ SubmitArticleForm
    \/ ArticleImageAnswered
    \/ ArticleSaveAnswered
    \/ ArticlesFetchAnswered

SpecArticle == InitArticle /\ [][NextArticle]_vars

\* C26 (as claimed): when the update of an article that was submitted
\* without a selected file is acknowledged, the stored featured image of
\* that article is what it was.
C26_UpdateKeepsFeaturedImage ==
    [][\A o \in DOMAIN ops :
          (/\ ops[o].kind = "article"
           /\ ops[o].stage = "saving" /\ ops'[o].stage = "done"
           /\ Truthy(ops[o].form.editingId)
           /\ ~ops[o].form.selectedFile) =>
              \A r \in DOMAIN articles :
                  articles[r].id = ops[o].form.editingId =>
                      articles'[r].featured_image = articles[r].featured_image]_vars

----------------------------------------------------------------------------
(* SpecSlug: the upload handler run on every bounded folder name *)

MaxSlugLen == 4      \* longest folder name that is enumerated

SlugInputAtoms == {" ", "/", "E", "e", "-", "_", "!"}

\* "Events/CSR Visit!" and "events/csr-visit"
EventsInput == <<"E", "v", "e", "n", "t", "s", "/", "C", "S", "R", " ",
                 "V", "i", "s", "i", "t", "!">>
EventsSlug == <<"e", "v", "e", "n", "t", "s", "/", "c", "s", "r", "-",
                "v", "i", "s", "i", "t">>

SlugInputs ==
    UNION {[1..n -> SlugInputAtoms] : n \in 0..MaxSlugLen} \cup {EventsInput}

\* the gallery view with a folder name typed into the form (line 892)
InitSlug ==
    /\ images = <<>>
    /\ groupedImages = NoGroups
    /\ memo = "fresh"
    /\ gallery = <<>>
    /\ toast = <<>>
    /\ PageUnmounted
    /\ galleryUploadForm \in [title : {<<>>, Str("t")}, country : {"singapore"},
                              label : {<<>>}, folder : SlugInputs, files : 1..2]
    /\ uploadLoading = FALSE
    /\ batches = <<>>
    /\ storage = {}
    /\ galleryImages = <<>>
    /\ editorLoading = FALSE
    /\ editorInflight = 0
    /\ ops = <<>>
    /\ articles = <<>>
    /\ articleForm = emptyArticleForm

\* the form submitted as it stands
SubmitForm == SubmitUpload(galleryUploadForm)

NextSlug == SubmitForm

SpecSlug == InitSlug /\ [][NextSlug]_vars

\* r neither starts nor ends with '/', has no empty segment, is made of
\* [a-z0-9-_] and '/', and none of its segments starts or ends with '-'
WellFormedSlug(r) ==
    /\ r # <<>> => (r[1] # "/" /\ r[Len(r)] # "/")
    /\ \A i \in 1..Len(r) :
           /\ r[i] \in SlugAtoms \cup {"/"}
           /\ (r[i] = "/" /\ i < Len(r)) => r[i + 1] # "/"
           /\ r[i] = "-" =>
                  /\ i > 1 /\ r[i - 1] # "/"
                  /\ i < Len(r) /\ r[i + 1] # "/"

\* C12: the normalised folder the handler computes from any folder name is
\* well formed (no leading or trailing '/', no empty segment, only
\* [a-z0-9-_] in a segment, no segment starting or ending with '-'), and
\* "Events/CSR Visit!" gives "events/csr-visit".
C12_SlugifyFolderWellFormed ==
    \A b \in DOMAIN batches :
        /\ WellFormedSlug(batches[b].folderSafe)
        /\ galleryUploadForm.folder = EventsInput =>
               batches[b].folderSafe = EventsSlug

C12_Witness ==
    /\ batches # <<>>
    /\ galleryUploadForm.folder = EventsInput
    /\ batches[1].folderSafe = EventsSlug

=============================================================================
